---- MODULE Spec2Model ----
(***************************************************************************)
(* A model of colly-bolt-storage (src/storage.go): the visited set, the    *)
(* cookie cache and the request queue kept in three bbolt buckets.         *)
(*                                                                         *)
(* bbolt itself is the substrate.  It is modelled by what its API          *)
(* documents: keys of a bucket are ordered by bytes.Compare, db.Update     *)
(* runs its function in the single read-write transaction (one writer at a *)
(* time) on a private copy that replaces the committed state on commit and *)
(* is discarded on rollback, db.View reads the committed state, and either *)
(* may fail with a store error.                                            *)
(***************************************************************************)
EXTENDS Integers, Sequences, FiniteSets, TLC

\* ------------------------------------------------------------------ bounds

\* AddRequest calls that may commit in one run of the model.
MaxAdds == 2
\* Callers that may be inside a method of one Storage at the same time.
NumCallers == 2
\* The sequence number a reopened database file starts from: the file of an
\* earlier run that enqueued and dequeued this many requests.
SeqResume == 254

\* Request fingerprints passed to Visited / IsVisited.
Ids == {0, 256}
\* u.String() of the URLs passed to Cookies / SetCookies.
Urls == {"http://a/", "http://b/"}
\* Cookie strings passed to SetCookies.
CookieVals == {"k=1", "k=2"}
\* Serialized requests passed to AddRequest: a nil slice, a zero-length slice
\* and a slice with bytes.
Requests == {"<nil>", "", "r"}

\* ------------------------------------------------------------ Go constants

bucketRequests == "requests"
bucketCookies == "cookies"
bucketQueue == "queue"
AllBuckets == {bucketRequests, bucketCookies, bucketQueue}

ErrEmptyQueue == "queue is empty"
\* Any error of bbolt's own (database not open, timeout, I/O on commit).
ErrStore == "store error"
\* A nil-pointer dereference on the *Bucket of a bucket that does not exist.
Panic == "panic: nil bucket"
\* A nil error.
Ok == "nil"
\* A nil []byte (Get of an absent key, First of an empty bucket).
NIL == "<nil>"

\* ------------------------------------------------------------- key codec

RECURSIVE Shr(_, _)
\* n >> bits, for bits a multiple of 8.
Shr(n, bits) == IF bits = 0 THEN n ELSE Shr(n \div 256, bits - 8)

\* u64ToBytes with the 0xff mask taken at another place: only the low byte
\* survives, every other byte is zero.
u64ToBytesLowByte(n) == << n % 256, 0, 0, 0, 0, 0, 0, 0 >>

\* The eight bytes of n, least significant first.
u64ToBytes(n) ==
    << Shr(n, 0) % 256, Shr(n, 8) % 256, Shr(n, 16) % 256, Shr(n, 24) % 256,
       Shr(n, 32) % 256, Shr(n, 40) % 256, Shr(n, 48) % 256, Shr(n, 56) % 256 >>

\* bytes.Compare(a, b) < 0: the order bbolt keeps the keys of a bucket in.
BytesLess(a, b) ==
    \/ \E i \in 1..Len(a) :
          /\ i <= Len(b)
          /\ a[i] < b[i]
          /\ \A j \in 1..(i - 1) : a[j] = b[j]
    \/ /\ Len(a) < Len(b)
       /\ \A j \in 1..Len(a) : a[j] = b[j]

\* --------------------------------------------------------- bucket contents

\* A bucket's contents: a function from its keys to their values.
EmptyBucket == [k \in {} |-> NIL]

\* Bucket.Get: the value of the key, nil when the key is absent.
Get(b, k) == IF k \in DOMAIN b THEN b[k] ELSE NIL

\* The bytes a bucket holds for a value put: those of the slice, none for a
\* nil slice.  Read back, a stored value is never nil.
Stored(v) == IF v = NIL THEN "" ELSE v

\* Bucket.Put: insert, or overwrite the value of an existing key.
Put(b, k, v) ==
    [x \in (DOMAIN b) \cup {k} |-> IF x = k THEN Stored(v) ELSE b[x]]

\* Cursor.Delete / Bucket.Delete: remove one key.
\* A Delete that empties the bucket.
DeleteAll(b, k) == [x \in {} |-> ""]

Delete(b, k) == [x \in (DOMAIN b) \ {k} |-> b[x]]

\* Cursor.Last taken for Cursor.First: the key that sorts last.
CursorLast(b) ==
    IF DOMAIN b = {}
    THEN [key |-> NIL, value |-> NIL]
    ELSE LET k == CHOOSE x \in DOMAIN b :
                      \A y \in (DOMAIN b) \ {x} : BytesLess(y, x)
         IN  [key |-> k, value |-> b[k]]

\* Cursor.First: the key that sorts first, with its value; nil, nil when the
\* bucket is empty.
First(b) ==
    IF DOMAIN b = {}
    THEN [key |-> NIL, value |-> NIL]
    ELSE LET k == CHOOSE x \in DOMAIN b :
                      \A y \in (DOMAIN b) \ {x} : BytesLess(x, y)
         IN  [key |-> k, value |-> b[k]]

\* Bucket.Stats().LeafPageN taken for KeyN: the number of leaf pages, one
\* for every bucket of the sizes modelled that holds a key.
LeafPageN(b) == IF DOMAIN b = {} THEN 0 ELSE 1

\* Bucket.Stats().KeyN: the number of keys.
KeyN(b) == Cardinality(DOMAIN b)

\* ------------------------------------------------------------------- state

VARIABLES
    db,         \* the committed contents of the database file
    tx,         \* the read-write transactions that are open, oldest first
    ret,        \* the call that returned last, and what it returned
    visitedOK,  \* history: the ids whose Visited returned nil
    lastSet,    \* history: per URL, the cookies of the last committed SetCookies
    addedNs,    \* history: the sequence numbers of the AddRequest calls that
                \*          returned nil, in the order they returned
    gotKeys,    \* history: the keys of the entries that the GetRequest calls
                \*          that returned nil took, in the order they returned
    fifo,       \* history: the requests added (number and bytes) whose entry
                \*          no GetRequest has taken, in the order they were added
    due,        \* history: the bytes at the front of fifo, the request added
                \*          earliest, when GetRequest last returned nil
    held,       \* the slice the last GetRequest that returned nil gave its
                \* caller: the bytes it had then, the bytes it reads now
    enc         \* the key codec applied to a pair of numbers

vars ==
    << db, tx, ret, visitedOK, lastSet, addedNs, gotKeys, fifo, due, held, enc >>
hist == << visitedOK, lastSet, addedNs, gotKeys, fifo, due >>

NoRet == [op |-> "none", arg |-> NIL, val |-> NIL, err |-> "nil", failed |-> FALSE]
NoEnc == [at |-> "off"]
NoHeld == [item |-> NIL, now |-> NIL]

\* A database file: which buckets exist, each bucket's contents and each
\* bucket's sequence counter.
NewFile ==
    [exists |-> {},
     data   |-> [b \in AllBuckets |-> EmptyBucket],
     seq    |-> [b \in AllBuckets |-> 0]]

\* The file of an earlier run: the buckets exist, every request enqueued was
\* dequeued again, and the queue's sequence counter stands at n.
UsedFile(n) ==
    [exists |-> AllBuckets,
     data   |-> [b \in AllBuckets |-> EmptyBucket],
     seq    |-> [b \in AllBuckets |-> IF b = bucketQueue THEN n ELSE 0]]

\* tx.Bucket(name) is nil exactly when the bucket does not exist.
HasBucket(d, name) == name \in d.exists

\* -------------------------------------------- the functions run in a tx
\* Each takes the transaction's view d of the database and gives the view
\* it leaves (work), what the closure stored for the caller (val), what
\* the history needs of it (aux) and the error the closure returns (err).

Res(d, val, aux, err) == [work |-> d, val |-> val, aux |-> aux, err |-> err]

\* tx.CreateBucket semantics: an existing bucket is an error.
CreateBucketOrFail(r, name) ==
    IF r.err # Ok THEN r
    ELSE IF name \in r.work.exists THEN [r EXCEPT !.err = "bucket already exists"]
    ELSE [r EXCEPT !.work.exists = @ \cup {name}]

\* A bucket created afresh on every Init: an existing bucket is deleted and
\* created again, empty.
CreateBucketFresh(r, name) ==
    IF r.err # Ok THEN r
    ELSE [r EXCEPT !.work.exists = @ \cup {name},
                   !.work.data[name] = EmptyBucket,
                   !.work.seq[name] = 0]

\* tx.CreateBucketIfNotExists: an existing bucket is left as it is, a
\* missing one is created empty.  The loop stops at the first error.
CreateBucketIfNotExists(r, name) ==
    IF r.err # Ok THEN r
    ELSE IF name \in r.work.exists THEN r
    ELSE [r EXCEPT !.work.exists = @ \cup {name},
                   !.work.data[name] = EmptyBucket,
                   !.work.seq[name] = 0]

\* Init with the queue bucket left out of its list.
InitFnNoQueue(d) ==
    CreateBucketIfNotExists(
        CreateBucketIfNotExists(Res(d, NIL, NIL, Ok), bucketRequests),
        bucketCookies)

\* The closure of Init.
InitFn(d) ==
    CreateBucketIfNotExists(
        CreateBucketIfNotExists(
            CreateBucketIfNotExists(Res(d, NIL, NIL, Ok), bucketRequests),
            bucketCookies),
        bucketQueue)

\* Visited that puts its key into the queue bucket.
VisitedFnQueueBucket(d, id) ==
    IF ~HasBucket(d, bucketQueue) THEN Res(d, NIL, NIL, Panic)
    ELSE Res([d EXCEPT !.data[bucketQueue] = Put(@, u64ToBytes(id), "")],
             NIL, NIL, Ok)

\* The closure of Visited.
VisitedFn(d, id) ==
    IF ~HasBucket(d, bucketRequests) THEN Res(d, NIL, NIL, Panic)
    ELSE Res([d EXCEPT !.data[bucketRequests] = Put(@, u64ToBytes(id), "")],
             NIL, NIL, Ok)

\* The closure of IsVisited.
IsVisitedFn(d, id) ==
    IF ~HasBucket(d, bucketRequests) THEN Res(d, FALSE, NIL, Panic)
    ELSE Res(d, Get(d.data[bucketRequests], u64ToBytes(id)) # NIL, NIL, Ok)

\* string(b) of a []byte: the empty string for nil.
GoString(b) == IF b = NIL THEN "" ELSE b

\* The closure of Cookies.
CookiesFn(d, u) ==
    IF ~HasBucket(d, bucketCookies) THEN Res(d, "", NIL, Panic)
    ELSE Res(d, GoString(Get(d.data[bucketCookies], u)), NIL, Ok)

\* SetCookies that writes only where no cookies are stored yet.
SetCookiesFnKeepFirst(d, u, cookies) ==
    IF ~HasBucket(d, bucketCookies) THEN Res(d, NIL, NIL, Panic)
    ELSE IF Get(d.data[bucketCookies], u) # NIL THEN Res(d, NIL, NIL, Ok)
    ELSE Res([d EXCEPT !.data[bucketCookies] = Put(@, u, cookies)], NIL, NIL, Ok)

\* The closure of SetCookies.
SetCookiesFn(d, u, cookies) ==
    IF ~HasBucket(d, bucketCookies) THEN Res(d, NIL, NIL, Panic)
    ELSE Res([d EXCEPT !.data[bucketCookies] = Put(@, u, cookies)], NIL, NIL, Ok)

\* NextSequence that returns the counter without incrementing it (the read
\* accessor Bucket.Sequence taken for NextSequence).
NextSequenceStale(d, name) == d.seq[name]

\* bucket.NextSequence: increment the bucket's counter and return it.
NextSequence(d, name) == d.seq[name] + 1

\* AddRequest that numbers the request by the queue's size, not by the
\* bucket's persisted sequence.
AddRequestFnCountKey(d, request) ==
    IF ~HasBucket(d, bucketQueue) THEN Res(d, NIL, NIL, Panic)
    ELSE LET n == KeyN(d.data[bucketQueue]) + 1
         IN  Res([d EXCEPT !.data[bucketQueue] = Put(@, u64ToBytes(n), request)],
                 NIL, n, Ok)

\* The closure of AddRequest.
AddRequestFn(d, request) ==
    IF ~HasBucket(d, bucketQueue) THEN Res(d, NIL, NIL, Panic)
    ELSE LET n == NextSequence(d, bucketQueue)
         IN  Res([d EXCEPT !.seq[bucketQueue] = n,
                           !.data[bucketQueue] = Put(@, u64ToBytes(n), request)],
                 NIL, n, Ok)

\* GetRequest without the check for an empty queue.
GetRequestFnNoEmptyCheck(d) ==
    IF ~HasBucket(d, bucketQueue) THEN Res(d, NIL, NIL, Panic)
    ELSE LET c == First(d.data[bucketQueue])
         IN  IF c.value = NIL
             THEN Res(d, NIL, NIL, Ok)
             ELSE Res([d EXCEPT !.data[bucketQueue] = Delete(@, c.key)],
                      c.value, c.key, Ok)

\* GetRequest that takes a request without bytes for no request
\* (len(request) == 0 in place of request == nil).
GetRequestFnLenCheck(d) ==
    IF ~HasBucket(d, bucketQueue) THEN Res(d, NIL, NIL, Panic)
    ELSE LET c == First(d.data[bucketQueue])
         IN  IF GoString(c.value) = ""
             THEN Res(d, NIL, NIL, ErrEmptyQueue)
             ELSE Res([d EXCEPT !.data[bucketQueue] = Delete(@, c.key)],
                      c.value, c.key, Ok)

\* The closure of GetRequest.
GetRequestFn(d) ==
    IF ~HasBucket(d, bucketQueue) THEN Res(d, NIL, NIL, Panic)
    ELSE LET c == First(d.data[bucketQueue])
         IN  IF c.value = NIL
             THEN Res(d, NIL, NIL, ErrEmptyQueue)
             ELSE Res([d EXCEPT !.data[bucketQueue] = Delete(@, c.key)],
                      c.value, c.key, Ok)

\* The closure of QueueSize.
QueueSizeFn(d) ==
    IF ~HasBucket(d, bucketQueue) THEN Res(d, 0, NIL, Panic)
    ELSE Res(d, KeyN(d.data[bucketQueue]), NIL, Ok)

\* ---------------------------------------------------------- transactions

\* What a method hands back: the last call that returned.  arg is kept for
\* the reading methods; failed records whether the store failed under the
\* call, surfaced or not.
Returned(op, arg, val, err, failed) ==
    [op |-> op, arg |-> arg, val |-> val, err |-> err, failed |-> failed]

\* A transaction begun without the writer lock, as a read-write transaction
\* of a store that does not serialize its writers.
NoWriterLock == TRUE

\* db.Update takes the database's writer lock: no other read-write
\* transaction is open.
WriterLockFree == tx = << >>

\* A caller is free to make a call.
CallerFree == Len(tx) < NumCallers

\* db.Update(fn), first half: the transaction begins and fn runs on its
\* private view; r is what fn made of the committed state.
BeginUpdate(op, arg, r) ==
    /\ CallerFree
    /\ WriterLockFree
    /\ tx' = Append(tx, [op |-> op, arg |-> arg, r |-> r])
    /\ UNCHANGED << db, ret, hist, held, enc >>

\* db.Update(fn) when Begin itself fails: fn never runs, the error is the
\* result of Update.  val is the zero value the method declared; err is what
\* the method makes of Update's error.
FailUpdate(op, val, err) ==
    /\ CallerFree
    /\ ret' = Returned(op, NIL, val, err, TRUE)
    /\ UNCHANGED << db, tx, hist, held, enc >>

\* db.View(fn): fn reads the committed state; or Begin fails and fn never
\* runs.  A view changes nothing.
ViewReturns(rt) ==
    /\ CallerFree
    /\ ret' = rt
    /\ UNCHANGED << db, tx, hist, held, enc >>

\* A method that hands the error of its transaction to the caller.
SwallowNothing(err) == err

\* The error a method without an error result lets through: none but a
\* panic, which no method recovers.
Swallow(err) == IF err = Panic THEN Panic ELSE Ok

\* ------------------------------------------------------------ the methods

\* func (s *Storage) Init() error
StorageInit ==
    \/ BeginUpdate("Init", NIL, InitFn(db))
    \/ FailUpdate("Init", NIL, ErrStore)

\* func (s *Storage) Visited(id uint64) error
Visited(id) ==
    \/ BeginUpdate("Visited", id, VisitedFn(db, id))
    \/ FailUpdate("Visited", NIL, ErrStore)

\* func (s *Storage) IsVisited(id uint64) (bool, error)
IsVisited(id) ==
    \/ LET r == IsVisitedFn(db, id)
       IN  ViewReturns(Returned("IsVisited", id, r.val, r.err, FALSE))
    \/ ViewReturns(Returned("IsVisited", id, FALSE, ErrStore, TRUE))

\* func (s *Storage) Cookies(u *url.URL) string
Cookies(u) ==
    \/ LET r == CookiesFn(db, u)
       IN  ViewReturns(Returned("Cookies", u, r.val, Swallow(r.err), FALSE))
    \/ ViewReturns(Returned("Cookies", u, "", Swallow(ErrStore), TRUE))

\* func (s *Storage) SetCookies(u *url.URL, cookies string)
SetCookies(u, cookies) ==
    \/ BeginUpdate("SetCookies", << u, cookies >>, SetCookiesFn(db, u, cookies))
    \/ FailUpdate("SetCookies", NIL, Swallow(ErrStore))

\* func (s *Storage) AddRequest(request []byte) error
AddRequest(request) ==
    /\ Len(addedNs) < MaxAdds
    /\ \/ BeginUpdate("AddRequest", request, AddRequestFn(db, request))
       \/ FailUpdate("AddRequest", NIL, ErrStore)

\* func (s *Storage) GetRequest() ([]byte, error)
GetRequest ==
    \/ BeginUpdate("GetRequest", NIL, GetRequestFn(db))
    \/ FailUpdate("GetRequest", NIL, ErrStore)

\* func (s *Storage) QueueSize() (int, error)
QueueSize ==
    \/ LET r == QueueSizeFn(db)
       IN  ViewReturns(Returned("QueueSize", NIL, r.val, r.err, FALSE))
    \/ ViewReturns(Returned("QueueSize", NIL, 0, ErrStore, TRUE))

\* Every method dropping the error of its db.Update, as SetCookies does.
MethodErrSwallowAll(op, e) == Swallow(e)

\* The error a method returns for the error e of its db.Update.
MethodErr(op, e) == IF op = "SetCookies" THEN Swallow(e) ELSE e

\* The histories after the call of transaction t returned nil.
HistAfter(t) ==
    /\ visitedOK' = IF t.op = "Visited" THEN visitedOK \cup {t.arg} ELSE visitedOK
    /\ lastSet' = IF t.op = "SetCookies"
                  THEN [lastSet EXCEPT ![t.arg[1]] = t.arg[2]] ELSE lastSet
    /\ addedNs' = IF t.op = "AddRequest" THEN Append(addedNs, t.r.aux) ELSE addedNs
    /\ gotKeys' = IF t.op = "GetRequest" THEN Append(gotKeys, t.r.aux) ELSE gotKeys
    /\ fifo' = CASE t.op = "AddRequest" ->
                        Append(fifo, [n |-> t.r.aux, item |-> GoString(t.arg)])
                 [] t.op = "GetRequest" ->
                        SelectSeq(fifo, LAMBDA e : u64ToBytes(e.n) # t.r.aux)
                 [] OTHER -> fifo
    /\ due' = IF t.op = "GetRequest"
              THEN (IF fifo # << >> THEN Head(fifo).item ELSE NIL)
              ELSE due

\* What a slice of the database's memory map may read once the page under it
\* has been freed and a later commit has written pages: the bytes it had, or
\* other bytes of the same length ("?" stands for any other byte).
MayRead(b) == IF b = "r" THEN {"r", "?"} ELSE {b}

\* The caller's slice after the commit of transaction t.  GetRequest returns
\* the slice that Cursor.First gave it, which points into the memory map and
\* is valid only while the transaction is open; the commit frees its page, and
\* every later commit that writes may reuse it.
HeldAfter(t) ==
    IF t.op = "GetRequest" THEN {[item |-> t.r.val, now |-> t.r.val]}
    ELSE IF t.r.work = db \/ held = NoHeld THEN {held}
    ELSE {[held EXCEPT !.now = b] : b \in MayRead(held.now)}

\* The open transactions without the i-th.
Without(i) == [j \in 1..(Len(tx) - 1) |-> IF j < i THEN tx[j] ELSE tx[j + 1]]

\* db.Update(fn), second half, when fn returned an error or panicked: the
\* transaction is rolled back and the error is the result.
Rollback(i) ==
    /\ tx[i].r.err # Ok
    /\ tx' = Without(i)
    /\ ret' = Returned(tx[i].op, NIL, tx[i].r.val,
                       MethodErr(tx[i].op, tx[i].r.err), FALSE)
    /\ UNCHANGED << db, hist, held, enc >>

\* db.Update(fn), second half, when fn returned nil and the commit fails:
\* rolled back, the commit's error is the result.
CommitFails(i) ==
    /\ tx[i].r.err = Ok
    /\ tx' = Without(i)
    /\ ret' = Returned(tx[i].op, NIL, tx[i].r.val,
                       MethodErr(tx[i].op, ErrStore), TRUE)
    /\ UNCHANGED << db, hist, held, enc >>

\* db.Update(fn), second half, when fn returned nil and the commit succeeds:
\* the transaction's view becomes the committed state.
Commit(i) ==
    /\ tx[i].r.err = Ok
    /\ db' = tx[i].r.work
    /\ tx' = Without(i)
    /\ ret' = Returned(tx[i].op, NIL, tx[i].r.val, Ok, FALSE)
    /\ HistAfter(tx[i])
    /\ held' \in HeldAfter(tx[i])
    /\ UNCHANGED enc

\* The process dies and is started again on the same file: open
\* transactions are gone, the committed state is what the file holds.
Crash ==
    /\ tx' = << >>
    /\ ret' = Returned("Crash", NIL, Len(tx), Ok, FALSE)
    /\ held' = NoHeld
    /\ UNCHANGED << db, hist, enc >>

\* ---------------------------------------------------------- specification

\* New: the database file is created, or the file of an earlier run is opened.
Init ==
    /\ db \in {NewFile, UsedFile(SeqResume)}
    /\ tx = << >>
    /\ ret = NoRet
    /\ visitedOK = {}
    /\ lastSet = [u \in Urls |-> ""]
    /\ addedNs = << >>
    /\ gotKeys = << >>
    /\ fifo = << >>
    /\ due = NIL
    /\ held = NoHeld
    /\ enc = NoEnc

Next ==
    \/ StorageInit
    \/ \E id \in Ids : Visited(id)
    \/ \E id \in Ids : IsVisited(id)
    \/ \E u \in Urls : Cookies(u)
    \/ \E u \in Urls, c \in CookieVals : SetCookies(u, c)
    \/ \E r \in Requests : AddRequest(r)
    \/ GetRequest
    \/ QueueSize
    \/ \E i \in 1..Len(tx) : Rollback(i)
    \/ \E i \in 1..Len(tx) : CommitFails(i)
    \/ \E i \in 1..Len(tx) : Commit(i)
    \/ Crash

Spec == Init /\ [][Next]_vars

\* ----------------------------------------------------- draining the queue

\* The longest run of queue calls the file of an earlier run has seen.
MaxFill == 3

\* The queue calls of an earlier run: AddRequest of some bytes, or GetRequest.
TakeOp == "GetRequest"
FillOps == Requests \cup {TakeOp}
FillRuns == UNION {[1..n -> FillOps] : n \in 0..MaxFill}

\* The file and the histories after one more queue call has returned: what
\* Commit makes of AddRequestFn, and of GetRequestFn where it returns nil.
FillStep(s, op) ==
    IF op = TakeOp
    THEN LET r == GetRequestFn(s.db)
         IN  IF r.err # Ok THEN s
             ELSE [db      |-> r.work,
                   addedNs |-> s.addedNs,
                   gotKeys |-> Append(s.gotKeys, r.aux),
                   fifo    |-> SelectSeq(s.fifo, LAMBDA e : u64ToBytes(e.n) # r.aux),
                   due     |-> Head(s.fifo).item]
    ELSE LET r == AddRequestFn(s.db, op)
         IN  [db      |-> r.work,
              addedNs |-> Append(s.addedNs, r.aux),
              gotKeys |-> s.gotKeys,
              fifo    |-> Append(s.fifo, [n |-> r.aux, item |-> GoString(op)]),
              due     |-> s.due]

RECURSIVE Filled(_, _)
Filled(s, ops) ==
    IF ops = << >> THEN s ELSE Filled(FillStep(s, Head(ops)), Tail(ops))

\* The files a run of queue calls leaves: begun on a new file after Init, or
\* on a file whose sequence counter stands at SeqResume.
FillStart(d) ==
    [db |-> d, addedNs |-> << >>, gotKeys |-> << >>, fifo |-> << >>, due |-> NIL]
FilledFiles ==
    {Filled(FillStart(d), ops) :
        d \in {InitFn(NewFile).work, UsedFile(SeqResume)}, ops \in FillRuns}

\* The store is opened on a file with requests pending.
InitDrain ==
    /\ \E s \in FilledFiles :
          /\ db = s.db
          /\ addedNs = s.addedNs
          /\ gotKeys = s.gotKeys
          /\ fifo = s.fifo
          /\ due = s.due
    /\ tx = << >>
    /\ ret = NoRet
    /\ visitedOK = {}
    /\ lastSet = [u \in Urls |-> ""]
    /\ held = NoHeld
    /\ enc = NoEnc

\* No AddRequest any more; GetRequest and QueueSize are called.
NextDrain ==
    \/ GetRequest
    \/ QueueSize
    \/ \E i \in 1..Len(tx) : Rollback(i)
    \/ \E i \in 1..Len(tx) : CommitFails(i)
    \/ \E i \in 1..Len(tx) : Commit(i)

\* GetRequest keeps being called, a db.Update that began ends, and the store
\* does not fail for ever.
SpecDrain ==
    /\ InitDrain
    /\ [][NextDrain]_vars
    /\ WF_vars(BeginUpdate("GetRequest", NIL, GetRequestFn(db)))
    /\ WF_vars(\E i \in 1..Len(tx) : Rollback(i))
    /\ SF_vars(\E i \in 1..Len(tx) : Commit(i))

\* ------------------------------------------------- the key codec on its own

\* Numbers the codec is applied to: around every byte boundary TLC's
\* integers reach.
CodecInputs ==
    {0, 1, 2, 255, 256, 257, 511, 512, 65535, 65536, 16777215, 16777216,
     2147483647}

InitCodec ==
    /\ db = NewFile
    /\ tx = << >>
    /\ ret = NoRet
    /\ visitedOK = {}
    /\ lastSet = [u \in Urls |-> ""]
    /\ addedNs = << >>
    /\ gotKeys = << >>
    /\ fifo = << >>
    /\ due = NIL
    /\ held = NoHeld
    /\ enc \in {[at |-> "in", a |-> a, b |-> b, ka |-> << >>, kb |-> << >>] :
                    a \in CodecInputs, b \in CodecInputs}

\* Both numbers are encoded.
Encode ==
    /\ enc.at = "in"
    /\ enc' = [enc EXCEPT !.at = "out",
                          !.ka = u64ToBytes(enc.a),
                          !.kb = u64ToBytes(enc.b)]
    /\ UNCHANGED << db, tx, ret, hist, held >>

NextCodec == Encode

SpecCodec == InitCodec /\ [][NextCodec]_vars

\* ------------------------------------------------------------------ claims

\* The set of the elements of a sequence.
Range(q) == {q[i] : i \in 1..Len(q)}

\* The committed contents of a bucket.
Bkt(name) == db.data[name]

\* The number of entries in the queue bucket.
Pending == Cardinality(DOMAIN Bkt(bucketQueue))

\* C1: every GetRequest that returns nil returns the request that was added
\* earliest among those not yet taken (requests leave in the order they
\* came), and a GetRequest after the last pending request was taken returns
\* ErrEmptyQueue.
C1_StrictFIFO ==
    /\ (ret.op = "GetRequest" /\ ret.err = Ok) => ret.val = due
    /\ (ret.op = "GetRequest" /\ ret.err = ErrEmptyQueue) => fifo = << >>

\* C2: for all numbers a < b the key of a sorts strictly before the key of b
\* in the byte order bbolt keeps keys in.
C2_KeyOrderPreserved ==
    (enc.at = "out" /\ enc.a < enc.b) => BytesLess(enc.ka, enc.kb)

\* C3: an IsVisited(id) that returns without error returns true exactly when
\* a Visited(id) returned nil before (for id 0 as for any other, and whatever
\* was done to other ids); and a repeated Visited(id) runs without error and
\* leaves the whole database as it is.
C3_DedupMembership ==
    /\ (ret.op = "IsVisited" /\ ret.err = Ok) => (ret.val <=> ret.arg \in visitedOK)
    /\ \A i \in 1..Len(tx) :
          (tx[i].op = "Visited" /\ tx[i].arg \in visitedOK)
              => (tx[i].r.err = Ok /\ tx[i].r.work = db)

\* C3's case: IsVisited(0) returned true after 0 alone was marked, and
\* Visited(0) is being called again.
C3_Witness ==
    /\ ret.op = "IsVisited" /\ ret.arg = 0 /\ ret.val = TRUE
    /\ visitedOK = {0}
    /\ tx # << >> /\ tx[1].op = "Visited" /\ tx[1].arg = 0

\* C4: between operations the queue holds as many entries as AddRequest
\* calls returned nil minus GetRequest calls that returned nil, never fewer
\* than none, and that is what a QueueSize that returns without error returns.
C4_QueueSizeAccounting ==
    /\ Len(addedNs) >= Len(gotKeys)
    /\ Pending = Len(addedNs) - Len(gotKeys)
    /\ (ret.op = "QueueSize" /\ ret.err = Ok)
          => (ret.val = Len(addedNs) - Len(gotKeys) /\ ret.val >= 0)

\* C4's case: QueueSize returned 2 after two requests were added and none
\* taken.
C4_Witness ==
    /\ ret.op = "QueueSize" /\ ret.err = Ok /\ ret.val = 2
    /\ Len(addedNs) = 2 /\ Len(gotKeys) = 0

\* C5: a Cookies(u) whose view ran returns the cookies of the last SetCookies
\* for exactly that URL whose update committed, the empty string when there
\* was none; a SetCookies for another URL does not change it.
C5_CookiesLastWriteWins ==
    (ret.op = "Cookies" /\ ~ret.failed /\ ret.err = Ok) => ret.val = lastSet[ret.arg]

\* C5's case: Cookies of one URL returned what was set for it while other
\* cookies are stored for the other URL.
C5_Witness ==
    /\ ret.op = "Cookies" /\ ~ret.failed /\ ret.arg = "http://a/" /\ ret.val = "k=2"
    /\ lastSet["http://b/"] = "k=1"

\* C6: a GetRequest on an empty queue gets ErrEmptyQueue from its closure
\* (no panic, no store error) with nothing changed in the transaction, returns
\* it with no request, and its return leaves the committed database (all three
\* buckets, the sequence counter) and every history as they were.
C6_EmptyQueueAborts ==
    /\ [](/\ \A i \in 1..Len(tx) :
                (/\ tx[i].op = "GetRequest"
                 /\ HasBucket(db, bucketQueue)
                 /\ Pending = 0)
                    => (/\ tx[i].r.err = ErrEmptyQueue
                        /\ tx[i].r.val = NIL
                        /\ tx[i].r.work = db)
          /\ (ret.op = "GetRequest" /\ ret.err = ErrEmptyQueue)
                => (ret.val = NIL /\ Pending = 0))
    /\ [][(ret'.op = "GetRequest" /\ ret'.err = ErrEmptyQueue)
             => (db' = db /\ hist' = hist)]_vars

\* C6's case: GetRequest returned ErrEmptyQueue on a queue that requests had
\* passed through.
C6_Witness ==
    /\ ret.op = "GetRequest" /\ ret.err = ErrEmptyQueue
    /\ Len(addedNs) = 2 /\ Len(gotKeys) = 2

\* The keys of the requests that were added.
AddedKeys == {u64ToBytes(n) : n \in Range(addedNs)}

\* C7: whatever the order in which concurrent callers get their
\* transactions, no entry is taken by two GetRequest calls, and every request
\* whose AddRequest returned nil is either still in the queue or was taken by
\* exactly one GetRequest: none is lost, none is there twice.
C7_ExactlyOnce ==
    /\ Cardinality(Range(gotKeys)) = Len(gotKeys)
    /\ Cardinality(AddedKeys) = Len(addedNs)
    /\ Range(gotKeys) \cap DOMAIN Bkt(bucketQueue) = {}
    /\ Range(gotKeys) \cup DOMAIN Bkt(bucketQueue) = AddedKeys

\* C7's case: one request was taken, one is pending, and a second GetRequest
\* is in its transaction.
C7_Witness ==
    /\ Len(gotKeys) = 1 /\ Pending = 1
    /\ tx # << >> /\ tx[1].op = "GetRequest"

\* C8: the closure of an Init on a database whose three buckets exist returns
\* nil and changes nothing in its transaction, and the return of such an Init
\* (with nil, or with the store's own error) leaves every bucket's entries and
\* the sequence counter as they were.
C8_ReInitNoOp ==
    /\ [](\A i \in 1..Len(tx) :
             (tx[i].op = "Init" /\ db.exists = AllBuckets)
                 => (tx[i].r.err = Ok /\ tx[i].r.work = db))
    /\ [][(ret'.op = "Init" /\ db.exists = AllBuckets)
             => (db' = db /\ ret'.err \in {Ok, ErrStore})]_vars

\* C8's case: Init returned nil on a database that holds a visited id,
\* cookies and a pending request.
C8_Witness ==
    /\ ret.op = "Init" /\ ret.err = Ok
    /\ visitedOK # {}
    /\ lastSet["http://a/"] # ""
    /\ Pending = 1 /\ Len(gotKeys) = 1

\* C9: in every state, a crash and restart included, the file holds exactly
\* what the calls that returned did: the visited ids, the cookies last set,
\* the requests added and not taken under their numbers, and a sequence
\* counter not below any number an AddRequest that returned nil was given;
\* a crash changes nothing of it, and no open transaction outlives it.
C9_CrashDurable ==
    /\ [](/\ DOMAIN Bkt(bucketRequests) = {u64ToBytes(id) : id \in visitedOK}
          /\ \A u \in Urls : GoString(Get(Bkt(bucketCookies), u)) = lastSet[u]
          /\ DOMAIN Bkt(bucketCookies) \subseteq Urls
          /\ {<< u64ToBytes(fifo[i].n), fifo[i].item >> : i \in 1..Len(fifo)}
                = {<< k, Bkt(bucketQueue)[k] >> : k \in DOMAIN Bkt(bucketQueue)}
          /\ Len(fifo) = Pending
          /\ \A n \in Range(addedNs) : n <= db.seq[bucketQueue])
    /\ [][ret'.op = "Crash"
             => (db' = db /\ hist' = hist /\ (tx # << >> => tx' = << >>))]_vars

\* C9's case: the process crashed with a transaction open, on a file that
\* holds a visited id, cookies and a pending request.
C9_Witness ==
    /\ ret.op = "Crash" /\ ret.val = 1
    /\ visitedOK # {}
    /\ lastSet["http://a/"] # ""
    /\ Pending = 1

\* C10: a Cookies or SetCookies under which the store failed returns without
\* an error and without a panic; the Cookies returns the empty string, and
\* after the SetCookies the cookie bucket holds what the committed writes
\* before it had set.
C10_CookieErrorsSwallowed ==
    (ret.op \in {"Cookies", "SetCookies"} /\ ret.failed)
        => (/\ ret.err = Ok
            /\ ret.op = "Cookies" => ret.val = ""
            /\ \A u \in Urls : GoString(Get(Bkt(bucketCookies), u)) = lastSet[u])

\* C10's case: the store failed under Cookies for a URL that has cookies
\* stored.
C10_Witness ==
    /\ ret.op = "Cookies" /\ ret.failed
    /\ lastSet[ret.arg] # ""
\* The methods that have an error result.
ErrMethods == {"Visited", "IsVisited", "AddRequest", "GetRequest", "QueueSize"}

\* C11: a Visited, IsVisited, AddRequest, GetRequest or QueueSize under which
\* the store failed returns the store's error (not nil, not ErrEmptyQueue), and
\* its return, the one attempt made, leaves the three buckets, the sequence
\* counter and every history as they were.
C11_StoreErrorsPropagated ==
    /\ []((ret.op \in ErrMethods /\ ret.failed) => ret.err = ErrStore)
    /\ [][(ret'.op \in ErrMethods /\ ret'.failed)
             => (db' = db /\ hist' = hist)]_vars

\* C11's case: the commit of a GetRequest failed after its closure had found
\* a request, and the request is still in the queue.
C11_Witness ==
    /\ ret.op = "GetRequest" /\ ret.failed /\ ret.err = ErrStore
    /\ ret.val # NIL
    /\ Pending = 1 /\ Len(gotKeys) = 0
\* C12: the numbers of the AddRequest calls that returned nil are strictly
\* increasing in the order the calls returned; an AddRequest in its
\* transaction holds a number above all of them, those of requests already
\* taken included, and its key is not the key of a pending request; pending
\* requests have distinct keys.
C12_SequenceNeverReused ==
    /\ \A i \in 1..Len(addedNs) : \A j \in 1..Len(addedNs) :
          i < j => addedNs[i] < addedNs[j]
    /\ \A i \in 1..Len(tx) :
          (tx[i].op = "AddRequest" /\ tx[i].r.err = Ok)
              => (/\ \A n \in Range(addedNs) : n < tx[i].r.aux
                  /\ u64ToBytes(tx[i].r.aux) \notin DOMAIN Bkt(bucketQueue))
    /\ Cardinality({u64ToBytes(fifo[i].n) : i \in 1..Len(fifo)}) = Len(fifo)

\* C12's case: the one request added was taken, the queue is empty, and the
\* next AddRequest holds the following number.
C12_Witness ==
    /\ Len(addedNs) = 1 /\ Len(gotKeys) = 1 /\ Pending = 0
    /\ tx # << >> /\ tx[1].op = "AddRequest"
    /\ tx[1].r.aux = addedNs[1] + 1
\* C13: the return of a GetRequest with nil removes exactly one entry of the
\* queue bucket, the one whose key sorts first in the bucket's byte order,
\* returns that entry's value, and leaves every other entry of the queue, key
\* and value, as it was.
C13_TakesLowestKeyOnly ==
    [][(ret'.op = "GetRequest" /\ ret'.err = Ok /\ db' # db)
          => \E k \in DOMAIN Bkt(bucketQueue) :
                /\ \A y \in (DOMAIN Bkt(bucketQueue)) \ {k} : BytesLess(k, y)
                /\ ret'.val = Bkt(bucketQueue)[k]
                /\ DOMAIN db'.data[bucketQueue] = (DOMAIN Bkt(bucketQueue)) \ {k}
                /\ \A y \in DOMAIN db'.data[bucketQueue] :
                      db'.data[bucketQueue][y] = Bkt(bucketQueue)[y]]_vars

\* C13's case: GetRequest returned a request and the other of the two that
\* were pending is still in the queue.
C13_Witness ==
    /\ ret.op = "GetRequest" /\ ret.err = Ok
    /\ Len(addedNs) = 2 /\ Len(gotKeys) = 1 /\ Pending = 1
\* C14: the closure of a GetRequest returns ErrEmptyQueue exactly when the
\* queue bucket has no entry as its transaction starts; when it has one, also
\* one whose value has no bytes (added as a zero-length or as a nil slice),
\* the closure returns nil with a value that is not nil and with one entry
\* fewer in the queue.
C14_EmptyQueueIffNoEntries ==
    \A i \in 1..Len(tx) :
        (tx[i].op = "GetRequest" /\ HasBucket(db, bucketQueue))
            => (/\ tx[i].r.err = ErrEmptyQueue <=> Pending = 0
                /\ Pending > 0 =>
                      (/\ tx[i].r.err = Ok
                       /\ tx[i].r.val # NIL
                       /\ Cardinality(DOMAIN tx[i].r.work.data[bucketQueue])
                             = Pending - 1))

\* C14's case: a GetRequest has found, and removed in its transaction, the
\* only pending request, which has no bytes.
C14_Witness ==
    /\ tx # << >> /\ tx[1].op = "GetRequest"
    /\ tx[1].r.err = Ok /\ tx[1].r.val = ""
    /\ Pending = 1 /\ Len(fifo) = 1 /\ fifo[1].item = ""
    /\ DOMAIN tx[1].r.work.data[bucketQueue] = {}
\* C15: the bytes GetRequest returned stay the bytes that were added,
\* whatever is committed afterwards: the caller's slice reads what it read
\* when the call returned.
C15_ReturnedBytesStable == held.now = held.item
\* C16: no step removes a key from the visited bucket (an id once visited
\* stays visited) or from the cookie bucket (cookies are overwritten, never
\* removed), no step removes a bucket, and the only step that removes a key
\* from the queue bucket is the return of a GetRequest with nil.
C16_OnlyDequeueDestroys ==
    [][/\ DOMAIN Bkt(bucketRequests) \subseteq DOMAIN db'.data[bucketRequests]
       /\ DOMAIN Bkt(bucketCookies) \subseteq DOMAIN db'.data[bucketCookies]
       /\ db.exists \subseteq db'.exists
       /\ ~(DOMAIN Bkt(bucketQueue) \subseteq DOMAIN db'.data[bucketQueue])
             => (ret'.op = "GetRequest" /\ ret'.err = Ok)]_vars

\* C16's case: GetRequest has emptied the queue while both ids are visited
\* and cookies are stored for both URLs.
C16_Witness ==
    /\ ret.op = "GetRequest" /\ ret.err = Ok /\ Pending = 0
    /\ DOMAIN Bkt(bucketRequests) = {u64ToBytes(id) : id \in Ids}
    /\ DOMAIN Bkt(bucketCookies) = Urls
\* C17: the return of a Visited changes at most the visited bucket, of a
\* SetCookies at most the cookie bucket, of an AddRequest or GetRequest at
\* most the queue bucket and its sequence counter, also when an id and a
\* sequence number have the same key; the return of an IsVisited, Cookies or
\* QueueSize changes nothing in the database.
C17_PartitionIsolation ==
    [][/\ ret'.op = "Visited"
             => db' = [db EXCEPT !.data[bucketRequests] = db'.data[bucketRequests]]
       /\ ret'.op = "SetCookies"
             => db' = [db EXCEPT !.data[bucketCookies] = db'.data[bucketCookies]]
       /\ ret'.op \in {"AddRequest", "GetRequest"}
             => db' = [db EXCEPT !.data[bucketQueue] = db'.data[bucketQueue],
                                 !.seq[bucketQueue] = db'.seq[bucketQueue]]
       /\ ret'.op \in {"IsVisited", "Cookies", "QueueSize"} => db' = db]_vars

\* C17's case: Visited(256) returned nil while the request numbered 256 is
\* pending under the same eight bytes in the queue bucket.
C17_Witness ==
    /\ ret.op = "Visited" /\ ret.err = Ok
    /\ u64ToBytes(256) \in DOMAIN Bkt(bucketRequests)
    /\ u64ToBytes(256) \in DOMAIN Bkt(bucketQueue)
    /\ Bkt(bucketQueue)[u64ToBytes(256)] = "r"
\* C18: when Init has returned nil the three buckets exist; once they exist
\* they exist in every later state, whatever is called; and while they exist
\* no closure meets a nil bucket and no method panics.
C18_PartitionsPersist ==
    /\ []((ret.op = "Init" /\ ret.err = Ok) => db.exists = AllBuckets)
    /\ [][db.exists = AllBuckets => db'.exists = AllBuckets]_vars
    /\ [](db.exists = AllBuckets
             => (/\ ret.err # Panic
                 /\ \A i \in 1..Len(tx) : tx[i].r.err # Panic))

\* C18's case: on a file that was new, after Init, a request was added under
\* number 1 and taken again.
C18_Witness ==
    /\ db.exists = AllBuckets
    /\ addedNs = << 1 >> /\ Len(gotKeys) = 1
    /\ ret.op = "GetRequest" /\ ret.err = Ok
\* The keys of the requests that are pending by the ledger of calls.
LedgerKeys == {u64ToBytes(fifo[i].n) : i \in 1..Len(fifo)}

\* C19: with no further AddRequest and GetRequest called again and again,
\* each GetRequest that returns nil takes one pending request, its bytes are
\* those that were added under its key, no key is taken twice, and the
\* pending entries are exactly those added and not yet taken, so k pending
\* requests are gone after exactly k such calls; from then on the queue bucket
\* stays empty, QueueSize gives 0 and a GetRequest whose transaction ran
\* returns ErrEmptyQueue; and that point is reached.
C19_QueueDrains ==
    /\ [](/\ Len(gotKeys) + Pending = Len(addedNs)
          /\ LedgerKeys = DOMAIN Bkt(bucketQueue)
          /\ \A i, j \in 1..Len(gotKeys) : i # j => gotKeys[i] # gotKeys[j])
    /\ [][Len(gotKeys') = Len(gotKeys) + 1
             => /\ Pending' = Pending - 1
                /\ \E i \in 1..Len(fifo) :
                      /\ u64ToBytes(fifo[i].n) = gotKeys'[Len(gotKeys')]
                      /\ fifo[i].item = GoString(ret'.val)
                /\ gotKeys'[Len(gotKeys')] \notin DOMAIN db'.data[bucketQueue]]_vars
    /\ [](Pending = 0
             => /\ QueueSizeFn(db).val = 0
                /\ (ret.op = "QueueSize" /\ ~ret.failed) => ret.val = 0
                /\ \A i \in 1..Len(tx) : tx[i].r.err = ErrEmptyQueue)
    /\ [][(Pending = 0 /\ tx # << >> /\ tx' = << >>)
             => (ret'.op = "GetRequest" /\ ret'.err = ErrEmptyQueue)]_vars
    /\ <>[](Pending = 0 /\ fifo = << >>)
    /\ []<>(ret.op = "GetRequest" /\ ret.err = ErrEmptyQueue)

\* C19's case: three requests were pending under the numbers 255, 256 and
\* 257, three calls of GetRequest took them, and the next found the queue
\* empty.
C19_Witness ==
    /\ addedNs = << 255, 256, 257 >>
    /\ Len(gotKeys) = 3
    /\ Pending = 0
    /\ ret.op = "GetRequest" /\ ret.err = ErrEmptyQueue
====
